---- MODULE Spec2Model ----
(***************************************************************************)
(* A model of tropes.py: the identity resolver (category_page), the         *)
(* category walker (category_members), the membership store                *)
(* (upsert_category_members), the crawl that joins them                    *)
(* (get_category_members2), the hierarchy resolver (show_hierachy2) and a   *)
(* consumer that keeps the Snapshots the walker yields.                    *)
(*                                                                         *)
(* Strings are sequences of lexical tokens: the title 'Category:Plots' is  *)
(* <<"Category:", "Plots">>, the request key 'gcmcontinue' is              *)
(* <<"gcm", "continue">>.  str.startswith, str.removeprefix and            *)
(* str.endswith are computed on these sequences.                           *)
(***************************************************************************)
EXTENDS Integers, Sequences, FiniteSets, TLC

VARIABLES
    \* ---- category walker (one category_members generator) ----
    pc,            \* "loop": at the while test; "yielded": suspended at yield; "done"
    query_params,  \* parameters of the next request
    members,       \* the accumulating Snapshot (the defaultdict the generator yields)
    num_members,   \* running total of yielded members
    max_members,   \* the cap, after lines 118-119
    exclude_pages, \* the exclude_pages argument
    dict,          \* the decoded response of the last request
    cache,         \* lru_cache of category_page: name -> result
    wiki,          \* the remote's answer to a lookup of each category name
    requests,      \* history: number of crawl requests issued
    url,           \* history: the query of the last crawl request
    prev_url,      \* history: the query of the crawl request before it
    yielded_total, \* history: sum of the sizes of the Snapshots yielded
    seen,          \* history: (member page, raw category title) pairs received since the last yield
    seen_pages,    \* history: member pages received since the last yield
    \* ---- membership store (the sqlite database file) ----
    db,            \* committed rows: [tropes, categories, members]
    uncommitted,   \* rows seen by the connection of the last call when it ended
    lastSnap,      \* the `members` argument of the last upsert call
    outcome,       \* "none" | "committed" | "failed" | "raised": how the last call ended
    upserted,      \* history: edges of every snapshot upserted successfully
    \* ---- hierarchy resolver (one show_hierachy2 call) ----
    h_pc,          \* "idle" | "running": the recursive query is stepping | "done"
    limit,         \* the limit argument
    min_members,   \* the min_members argument
    queue,         \* rows computed and not yet added to member_hierarchy
    rows,          \* member_hierarchy: the rows fetchall returns
    \* ---- identity resolver (category_page calls of walkers at several endpoints) ----
    lookups,       \* history: lookup requests issued, per (name, endpoint)
    first,         \* history: what the first completed lookup of a (name, endpoint) returned
    answer,        \* the decoded response of the last lookup request, if the last call made one
    result,        \* the last call: its name, its endpoint and what it returned or raised
    \* ---- concurrent crawl runs and a reader on one database file ----
    txn,           \* per run: the upsert_category_members call it is in, and its connection's view
    lock,          \* the run whose connection holds the database's write lock, or 0
    observed,      \* the rows the reader's last SELECT saw
    \* ---- a consumer that keeps every Snapshot category_members yields ----
    held,          \* per yield so far: what the reference received at that yield shows now
    batches        \* history: per yield so far, the Snapshot as it was at that yield

walker_vars == <<pc, query_params, members, num_members, max_members, exclude_pages,
                 dict, cache, wiki, requests, url, prev_url, yielded_total,
                 seen, seen_pages>>
store_vars == <<db, uncommitted, lastSnap, outcome, upserted>>
hierarchy_vars == <<h_pc, limit, min_members, queue, rows>>
resolver_vars == <<lookups, first, answer, result>>
concurrent_vars == <<txn, lock, observed>>
consumer_vars == <<held, batches>>
vars == <<walker_vars, store_vars, hierarchy_vars, resolver_vars, concurrent_vars,
         consumer_vars>>

-----------------------------------------------------------------------------
\* Bounds of the model.

MaxKeys == 2       \* member pages in one Snapshot
MaxParents == 2    \* parent categories of one member page
MaxRequests == 3   \* crawl requests of one walk
MaxPages == 1      \* member pages in one crawl response
MaxCap == 2        \* largest max_members argument
MaxLimit == 3      \* largest limit argument of show_hierachy2
MaxMin == 1        \* largest min_members argument of show_hierachy2
MaxEdges == 3      \* edges of a stored graph the hierarchy is resolved on
MaxLookups == 2    \* lookup requests for one (name, endpoint)
MaxTotal == 3      \* running total of a walk that is followed for ever
MaxRows == 4       \* rows of member_hierarchy in a query that is followed for ever

-----------------------------------------------------------------------------
\* Optional values: None is the empty sequence, a value x is <<x>>.

None == <<>>
Some(x) == <<x>>

-----------------------------------------------------------------------------
\* Strings.

startswith(s, prefix) ==
    /\ Len(s) >= Len(prefix)
    /\ SubSeq(s, 1, Len(prefix)) = prefix

removeprefix(s, prefix) ==
    IF startswith(s, prefix) THEN SubSeq(s, Len(prefix) + 1, Len(s)) ELSE s

endswith(s, suffix) ==
    /\ Len(s) >= Len(suffix)
    /\ SubSeq(s, Len(s) - Len(suffix) + 1, Len(s)) = suffix

CategoryPrefix == <<"Category:">>

-----------------------------------------------------------------------------
\* Pages: (pageid, title).

Ids == {1, 2}

\* pages the remote can return as members of the crawled category: a page
\* seen under two titles (a rename), and a sub-category
MemberPages == {<<1, <<"A">>>>, <<1, <<"B">>>>, <<2, <<"Category:", "A">>>>}

\* pages category_page can return for a parent category
ParentPages == {<<2, <<"Category:", "A">>>>, <<2, <<"Category:", "B">>>>, <<1, <<"Category:", "C">>>>}

\* Members = Mapping[Page, Pages]
KeySets == {K \in SUBSET MemberPages : Cardinality(K) <= MaxKeys}
ParentSets == {P \in SUBSET ParentPages : Cardinality(P) <= MaxParents}
Snapshots == UNION {[K -> ParentSets] : K \in KeySets}

EmptySnapshot == [p \in {} |-> {}]

-----------------------------------------------------------------------------
\* The remote API.

\* the raw titles under 'categories' of a member page
CategoryTitles == {<<"Category:", "A">>, <<"Category:", "B">>}

CategoryNames == {removeprefix(t, CategoryPrefix) : t \in CategoryTitles}

\* pages the crawled category has as members
WalkPages == {<<1, <<"A">>>>, <<2, <<"Category:", "A">>>>}

\* responses to the lookup of one category name: no query, a query without
\* pages, no page, the page, the page marked missing, two pages
LookupPage(name) ==
    IF name = <<"A">> THEN <<2, <<"Category:", "A">>>> ELSE <<2, <<"Category:", "B">>>>

LookupRecord(name, missing) ==
    [pageid |-> LookupPage(name)[1], title |-> LookupPage(name)[2], missing |-> missing]

LookupResponses(name) ==
    { [query |-> None],
      [query |-> Some([pages |-> None])],
      [query |-> Some([pages |-> Some(<<>>)])],
      [query |-> Some([pages |-> Some(<<LookupRecord(name, None)>>)])],
      [query |-> Some([pages |-> Some(<<LookupRecord(name, Some(TRUE))>>)])],
      [query |-> Some([pages |-> Some(<<LookupRecord(name, None), LookupRecord(name, Some(TRUE))>>)])],
      [query |-> Some([pages |-> Some(<<LookupRecord(name, None), LookupRecord(name, None)>>)])] }

\* the answers a walk meets: the category is unknown to the remote, or known
WalkLookups(name) ==
    { [query |-> Some([pages |-> Some(<<>>)])],
      [query |-> Some([pages |-> Some(<<LookupRecord(name, None)>>)])] }

\* category_page, lines 96-103: the single page of the result, unless missing
category_page_first(decoded) ==
    IF decoded.query = None THEN None
    ELSE IF decoded.query[1].pages = None THEN None
    ELSE IF Len(decoded.query[1].pages[1]) = 0 THEN None
    ELSE IF decoded.query[1].pages[1][1].missing # None THEN None
    ELSE Some(<<decoded.query[1].pages[1][1].pageid, decoded.query[1].pages[1][1].title>>)

category_page(decoded) ==
    IF decoded.query = None THEN None
    ELSE IF decoded.query[1].pages = None THEN None
    ELSE IF Len(decoded.query[1].pages[1]) # 1 THEN None
    ELSE IF decoded.query[1].pages[1][1].missing # None THEN None
    ELSE Some(<<decoded.query[1].pages[1][1].pageid, decoded.query[1].pages[1][1].title>>)

\* (scheme, net_loc, path): the defaults of lines 78-80 and 114-116, and the
\* same host reached over another scheme
DefaultEndpoint == <<"https", "allthetropes.org", "w/api.php/">>

Endpoints == {DefaultEndpoint, <<"http", "allthetropes.org", "w/api.php/">>}

\* the key lru_cache gives a call category_page(category, scheme=, net_loc=,
\* path=) made through the partial of line 163
CacheKeyNameOnly(category, endpoint) == <<category>>

CacheKey(category, endpoint) == <<category>> \o endpoint

\* crawl responses
PageRecords ==
    {[pageid |-> p[1], title |-> p[2], categories |-> cs] : p \in WalkPages, cs \in SUBSET CategoryTitles}

PageLists ==
    {S \in SUBSET PageRecords :
        /\ Cardinality(S) <= MaxPages
        /\ \A r1, r2 \in S : r1.pageid = r2.pageid => r1 = r2}

ContinueKey == <<"continue">>

ContinueValues ==
    { (<<"gcm", "continue">> :> "X") @@ (ContinueKey :> "gcmcontinue||"),
      (<<"cl", "continue">> :> "Y") @@ (ContinueKey :> "||") }

Responses ==
    [query : {None, Some([pages |-> None])} \cup {Some([pages |-> Some(ps)]) : ps \in PageLists},
     batchcomplete : BOOLEAN,
     continue : {None} \cup {Some(c) : c \in ContinueValues}]

-----------------------------------------------------------------------------
\* The category walker: category_members.

\* lines 142-153, with the default gcmlimit and cllimit
InitialParams ==
    (<<"action">> :> "query") @@ (<<"format">> :> "json") @@ (<<"formatversion">> :> "2")
    @@ (<<"generator">> :> "categorymembers") @@ (<<"gcm", "title">> :> "Category:Trope")
    @@ (<<"gcm", "limit">> :> "50") @@ (<<"gcm", "type">> :> "subcat|page")
    @@ (<<"prop">> :> "categories") @@ (<<"cl", "limit">> :> "20") @@ (<<"maxlag">> :> "1")

\* urlencode(query_params): the key=value pairs of the request
urlencode(params) == {<<k, params[k]>> : k \in DOMAIN params}

\* lines 118-119
NormalizeMax(arg) ==
    IF arg = None THEN arg ELSE IF arg[1] <= 0 THEN None ELSE arg

\* line 166
LoopConditionInclusive ==
    IF max_members = None THEN TRUE ELSE num_members <= max_members[1]

LoopConditionNotEqual ==
    IF max_members = None THEN TRUE ELSE num_members # max_members[1]

LoopCondition ==
    IF max_members = None THEN TRUE ELSE num_members < max_members[1]

\* line 175, through the lru_cache: a name looked up before is not looked up again
Lookup(names) ==
    [k \in DOMAIN cache \cup {CacheKey(n, DefaultEndpoint) : n \in names} |->
        IF k \in DOMAIN cache THEN cache[k]
        ELSE category_page(wiki[CHOOSE n \in names : CacheKey(n, DefaultEndpoint) = k])]

\* lines 174-176: the resolved parents of one page of the response
ResolvedCategories(page, lookup) ==
    LET category_titles == {removeprefix(t, CategoryPrefix) : t \in page.categories}
        categories == {lookup[CacheKey(n, DefaultEndpoint)] : n \in category_titles}
    IN {c[1] : c \in categories \ {None}}

\* line 177, for every page
MergeSkipEmpty(acc, pages, lookup) ==
    LET added == [k \in {<<r.pageid, r.title>> : r \in pages} |->
                    UNION {ResolvedCategories(r, lookup) \ exclude_pages :
                             r \in {x \in pages : <<x.pageid, x.title>> = k}}]
        keys == DOMAIN acc \cup {k \in DOMAIN added : added[k] # {}}
    IN [k \in keys |->
           (IF k \in DOMAIN acc THEN acc[k] ELSE {})
           \cup (IF k \in DOMAIN added THEN added[k] ELSE {})]

MergeNoExclude(acc, pages, lookup) ==
    [k \in DOMAIN acc \cup {<<r.pageid, r.title>> : r \in pages} |->
        (IF k \in DOMAIN acc THEN acc[k] ELSE {})
        \cup UNION {ResolvedCategories(r, lookup) :
                      r \in {x \in pages : <<x.pageid, x.title>> = k}}]

Merge(acc, pages, lookup) ==
    [k \in DOMAIN acc \cup {<<r.pageid, r.title>> : r \in pages} |->
        (IF k \in DOMAIN acc THEN acc[k] ELSE {})
        \cup UNION {ResolvedCategories(r, lookup) \ exclude_pages :
                      r \in {x \in pages : <<x.pageid, x.title>> = k}}]

\* lines 193-194
MergeContinueKeepStale(params, continue_value) ==
    [k \in DOMAIN params \cup DOMAIN continue_value |->
        IF k \in DOMAIN continue_value THEN continue_value[k] ELSE params[k]]

MergeContinue(params, continue_value) ==
    LET kept == {k \in DOMAIN params : ~endswith(k, ContinueKey)}
    IN [k \in kept \cup DOMAIN continue_value |->
           IF k \in DOMAIN continue_value THEN continue_value[k] ELSE params[k]]

\* lines 187-194: return, or prepare the next request
ContinueAlways(response) ==
    /\ pc' = "loop"
    /\ query_params' = IF response.continue = None THEN query_params
                       ELSE MergeContinue(query_params, response.continue[1])

Continue(response) ==
    IF response.continue = None
    THEN /\ pc' = "done"
         /\ UNCHANGED query_params
    ELSE /\ pc' = "loop"
         /\ query_params' = MergeContinue(query_params, response.continue[1])

\* lines 181 and 184: the generator suspends at a batchcomplete response
YieldsAlways(response) == TRUE

YieldsWithPages(response) ==
    /\ response.batchcomplete = TRUE
    /\ response.query # None
    /\ response.query[1].pages # None

YieldsAtEnd(response) == response.batchcomplete = TRUE \/ response.continue = None

Yields(response) == response.batchcomplete = TRUE

\* the history counts requests up to MaxRequests
Counted(n) == IF n < MaxRequests THEN n + 1 ELSE n

\* lines 171-172: the pages of a decoded response; none without 'query' or
\* without 'pages' under it
PagesIn(response) ==
    IF response.query = None THEN {}
    ELSE IF response.query[1].pages = None THEN {}
    ELSE response.query[1].pages[1]

\* lines 166-194, one iteration up to the yield or to the end of the body
Request(response) ==
    LET pages == PagesIn(response)
        names == UNION {{removeprefix(t, CategoryPrefix) : t \in r.categories} : r \in pages}
        lookup == Lookup(names)
        merged == Merge(members, pages, lookup)
    IN /\ pc = "loop"
       /\ LoopCondition
       /\ requests' = Counted(requests)
       /\ url' = urlencode(query_params)
       /\ prev_url' = url
       /\ dict' = response
       /\ cache' = lookup
       /\ members' = merged
       /\ seen' = seen \cup UNION {{<<r.pageid, r.title>>} \X r.categories : r \in pages}
       /\ seen_pages' = seen_pages \cup {<<r.pageid, r.title>> : r \in pages}
       /\ IF Yields(response)
          THEN /\ num_members' = num_members + Cardinality(DOMAIN merged)
               /\ yielded_total' = yielded_total + Cardinality(DOMAIN merged)
               /\ pc' = "yielded"
               /\ UNCHANGED query_params
          ELSE /\ UNCHANGED <<num_members, yielded_total>>
               /\ Continue(response)
       /\ UNCHANGED <<max_members, exclude_pages, wiki>>

\* line 185 and on: the consumer asks for the next Snapshot
ResumeKeep(acc) == acc

Clear(acc) == [k \in {} |-> {}]

Resume ==
    /\ pc = "yielded"
    /\ members' = Clear(members)
    /\ seen' = {}
    /\ seen_pages' = {}
    /\ Continue(dict)
    /\ UNCHANGED <<num_members, max_members, exclude_pages, dict, cache, wiki, requests,
                   url, prev_url, yielded_total>>

\* line 166: the while test fails
Exhausted ==
    /\ pc = "loop"
    /\ ~LoopCondition
    /\ pc' = "done"
    /\ UNCHANGED <<query_params, members, num_members, max_members, exclude_pages,
                   dict, cache, wiki, requests, url, prev_url, yielded_total,
                   seen, seen_pages>>

NoResponse == [query |-> None, batchcomplete |-> FALSE, continue |-> None]

MaxMembersArgs == {None} \cup {Some(n) : n \in 0..MaxCap}

ExcludeArgs == {{}, {<<2, <<"Category:", "B">>>>}}

\* category_members(category, exclude_pages, max_members) up to line 165,
\* beside a new database file
WalkerInit ==
    /\ db = [tropes |-> [i \in {} |-> <<>>], categories |-> [i \in {} |-> <<>>], members |-> {}]
    /\ uncommitted = db
    /\ lastSnap = [k \in {} |-> {}]
    /\ outcome = "none"
    /\ upserted = {}
    /\ h_pc = "idle"
    /\ limit = 0
    /\ min_members = 0
    /\ queue = <<>>
    /\ rows = <<>>
    /\ pc = "loop"
    /\ query_params = InitialParams
    /\ members = [k \in {} |-> {}]
    /\ num_members = 0
    /\ max_members \in {NormalizeMax(a) : a \in MaxMembersArgs}
    /\ exclude_pages \in ExcludeArgs
    /\ dict = NoResponse
    /\ cache = [n \in {} |-> None]
    /\ wiki \in {w \in [CategoryNames -> UNION {WalkLookups(n) : n \in CategoryNames}] :
                    \A n \in CategoryNames : w[n] \in WalkLookups(n)}
    /\ requests = 0
    /\ url = {}
    /\ prev_url = {}
    /\ yielded_total = 0
    /\ seen = {}
    /\ seen_pages = {}
    /\ lookups = [p \in {} |-> 0]
    /\ first = [p \in {} |-> <<>>]
    /\ answer = <<>>
    /\ result = <<>>
    /\ txn = [w \in {1, 2} |-> [state |-> "idle"]]
    /\ lock = 0
    /\ observed = db
    /\ held = <<>>
    /\ batches = <<>>

-----------------------------------------------------------------------------
\* The identity resolver: the calls category_page_(title) of line 175, made by
\* walkers of one process at several endpoints, through the lru_cache of
\* line 76.

\* what a call of category_page did
Returned(category, endpoint, value) ==
    Some([category |-> category, endpoint |-> endpoint, outcome |-> "returned", value |-> value])

Raised(category, endpoint) ==
    Some([category |-> category, endpoint |-> endpoint, outcome |-> "raised", value |-> None])

Issued(pair) == IF pair \in DOMAIN lookups THEN lookups[pair] ELSE 0

\* category_page_(category) of a walker of this endpoint.  A key the cache
\* holds is answered from the cache.  Otherwise lines 82-103 run: the request
\* is answered and the result cached, or urlopen (or the decoding) raises and
\* nothing is cached.
category_page_(category, endpoint) ==
    LET key == CacheKey(category, endpoint)
        pair == <<category, endpoint>>
        issued == [p \in DOMAIN lookups \cup {pair} |-> IF p = pair THEN Issued(p) + 1 ELSE lookups[p]]
    IN IF key \in DOMAIN cache
       THEN /\ result' = Returned(category, endpoint, cache[key])
            /\ answer' = None
            /\ UNCHANGED <<cache, lookups, first>>
       ELSE /\ Issued(pair) < MaxLookups
            /\ lookups' = issued
            /\ \/ \E decoded \in LookupResponses(category) :
                    /\ answer' = Some(decoded)
                    /\ cache' = [k \in DOMAIN cache \cup {key} |->
                                    IF k = key THEN category_page(decoded) ELSE cache[k]]
                    /\ first' = [p \in DOMAIN first \cup {pair} |->
                                    IF p \in DOMAIN first THEN first[p] ELSE category_page(decoded)]
                    /\ result' = Returned(category, endpoint, category_page(decoded))
               \/ /\ answer' = None
                  /\ result' = Raised(category, endpoint)
                  /\ UNCHANGED <<cache, first>>

\* a new process: nothing cached, no walk running
ResolverInit ==
    /\ db = [tropes |-> [i \in {} |-> <<>>], categories |-> [i \in {} |-> <<>>], members |-> {}]
    /\ uncommitted = db
    /\ lastSnap = [k \in {} |-> {}]
    /\ outcome = "none"
    /\ upserted = {}
    /\ h_pc = "idle"
    /\ limit = 0
    /\ min_members = 0
    /\ queue = <<>>
    /\ rows = <<>>
    /\ pc = "done"
    /\ query_params = InitialParams
    /\ members = [k \in {} |-> {}]
    /\ num_members = 0
    /\ max_members = None
    /\ exclude_pages = {}
    /\ dict = NoResponse
    /\ cache = [n \in {} |-> None]
    /\ wiki = [n \in CategoryNames |-> [query |-> None]]
    /\ requests = 0
    /\ url = {}
    /\ prev_url = {}
    /\ yielded_total = 0
    /\ seen = {}
    /\ seen_pages = {}
    /\ lookups = [p \in {} |-> 0]
    /\ first = [p \in {} |-> <<>>]
    /\ answer = <<>>
    /\ result = <<>>
    /\ txn = [w \in {1, 2} |-> [state |-> "idle"]]
    /\ lock = 0
    /\ observed = db
    /\ held = <<>>
    /\ batches = <<>>

ResolverNext ==
    (\E category \in CategoryNames : \E endpoint \in Endpoints : category_page_(category, endpoint))
    /\ UNCHANGED <<pc, query_params, members, num_members, max_members, exclude_pages, dict,
                   wiki, requests, url, prev_url, yielded_total, seen, seen_pages>>
    /\ UNCHANGED <<store_vars, hierarchy_vars, concurrent_vars, consumer_vars>>

SpecResolver == ResolverInit /\ [][ResolverNext]_vars

-----------------------------------------------------------------------------
\* Properties of the identity resolver (checked under SpecResolver).

\* the pages of a decoded lookup response; none without 'query' or 'pages'
PagesOf(decoded) ==
    IF decoded.query = None THEN <<>>
    ELSE IF decoded.query[1].pages = None THEN <<>>
    ELSE decoded.query[1].pages[1]

\* C12: a call of category_page that got a response returns a page if and
\* only if the response holds exactly one page and no page of it carries a
\* 'missing' flag, and the page it returns is the (pageid, title) of that
\* page; with no query, no pages, zero pages, several pages or a missing
\* page it returns None.
C12_PageIffSingleNotMissing ==
    answer # None =>
        LET pages == PagesOf(answer[1])
            single == Len(pages) = 1 /\ \A i \in DOMAIN pages : pages[i].missing = None
        IN /\ result[1].outcome = "returned"
           /\ (result[1].value # None) <=> single
           /\ single => result[1].value = Some(<<pages[1].pageid, pages[1].title>>)

\* a lookup answered with two pages, the first of them a good one, returned
\* None, in a process that has resolved another name to its page
C12_Witness ==
    /\ answer # None
    /\ Len(PagesOf(answer[1])) = 2
    /\ PagesOf(answer[1])[1].missing = None
    /\ result[1].value = None
    /\ \E k \in DOMAIN cache : cache[k] # None

\* C13: once a lookup of a (name, endpoint) has completed, no later call
\* issues a request for that (name, endpoint); and every call that returns,
\* returns what the first completed lookup of its own (name, endpoint)
\* returned, None included, never the entry of another endpoint.
C13_OneLookupPerNameAndEndpoint ==
    [][/\ \A p \in DOMAIN first : Issued(p)' = Issued(p)
       /\ (result' # None /\ result'[1].outcome = "returned") =>
             LET p == <<result'[1].category, result'[1].endpoint>>
             IN p \in DOMAIN first' /\ result'[1].value = first'[p]]_vars

\* a call was answered from the cache with a cached None, after one request
\* for its (name, endpoint), while the same name is cached as a page for the
\* other endpoint
C13_Witness ==
    /\ result # None
    /\ answer = None
    /\ result[1].outcome = "returned"
    /\ result[1].value = None
    /\ Issued(<<result[1].category, result[1].endpoint>>) = 1
    /\ \E e \in Endpoints :
          /\ <<result[1].category, e>> \in DOMAIN first
          /\ first[<<result[1].category, e>>] # None

-----------------------------------------------------------------------------
\* The membership store.

\* a table (id INTEGER PRIMARY KEY, title TEXT): a function from the ids that
\* have a row to their titles
EmptyTable == [i \in {} |-> <<>>]

\* the three CREATE TABLE IF NOT EXISTS statements on a new database file
EmptyDb == [tropes |-> EmptyTable, categories |-> EmptyTable, members |-> {}]

\* lines 202-207: the foreign keys the members table declares; the
\* connection of line 199 never sets PRAGMA foreign_keys, so the engine does
\* not check them
ForeignKeys(d) ==
    \A e \in d.members :
        /\ e[1] \in DOMAIN d.categories
        /\ e[2] \in DOMAIN d.tropes

\* The ON CONFLICT clause of each statement.
OnConflictAbort(op) == "ABORT"

OnConflict(op) ==
    CASE op = "upsert_category" -> "DO UPDATE SET title=title"
      [] op = "upsert_trope" -> "DO UPDATE SET title=title"
      [] op = "upsert_membership" -> "DO NOTHING"

\* INSERT INTO t(id, title) VALUES(?, ?) ON CONFLICT(id) DO UPDATE SET title=title
\* (in DO UPDATE an unqualified column is the existing row's column, so the
\* update assigns the stored title to itself)
UpsertTitleRefresh(table, id, title) ==
    [i \in DOMAIN table \cup {id} |-> IF i = id THEN title ELSE table[i]]

UpsertTitle(table, id, title) ==
    IF id \notin DOMAIN table
    THEN [i \in DOMAIN table \cup {id} |-> IF i = id THEN title ELSE table[i]]
    ELSE [table EXCEPT ![id] = table[id]]

upsert_category_into_tropes(d, id, title) ==
    [d EXCEPT !.tropes = UpsertTitle(d.tropes, id, title)]

upsert_category(d, id, title) ==
    [d EXCEPT !.categories = UpsertTitle(d.categories, id, title)]

upsert_trope(d, id, title) ==
    [d EXCEPT !.tropes = UpsertTitle(d.tropes, id, title)]

\* INSERT INTO members(category_id, member_id) ... ON CONFLICT DO NOTHING
upsert_membership_replacing(d, category_id, member_id) ==
    [d EXCEPT !.members = {e \in @ : e[2] # member_id} \cup {<<category_id, member_id>>}]

upsert_membership_reversed(d, category_id, member_id) ==
    [d EXCEPT !.members = @ \cup {<<member_id, category_id>>}]

upsert_membership(d, category_id, member_id) ==
    [d EXCEPT !.members = @ \cup {<<category_id, member_id>>}]

Perms(S) ==
    {f \in [1..Cardinality(S) -> S] : \A i, j \in 1..Cardinality(S) : i # j => f[i] # f[j]}

\* an iteration order of members.items() and of each value set
Orders(snap) ==
    {o \in [keys : Perms(DOMAIN snap),
            parents : [DOMAIN snap -> UNION {Perms(snap[k]) : k \in DOMAIN snap} \cup {<<>>}]] :
        \A k \in DOMAIN snap : o.parents[k] \in Perms(snap[k])}

\* The statements of one call, in execution order.
MemberStatement(page) ==
    IF startswith(page[2], CategoryPrefix)
    THEN [op |-> "upsert_category", id |-> page[1], title |-> removeprefix(page[2], CategoryPrefix)]
    ELSE [op |-> "upsert_trope", id |-> page[1], title |-> page[2]]

RECURSIVE ParentStatements(_, _)
ParentStatements(member_id, cats) ==
    IF cats = <<>> THEN <<>>
    ELSE << [op |-> "upsert_category", id |-> Head(cats)[1],
             title |-> removeprefix(Head(cats)[2], CategoryPrefix)],
            [op |-> "upsert_membership", category_id |-> Head(cats)[1], member_id |-> member_id] >>
         \o ParentStatements(member_id, Tail(cats))

RECURSIVE Statements(_, _)
Statements(keys, parents) ==
    IF keys = <<>> THEN <<>>
    ELSE <<MemberStatement(Head(keys))>>
         \o ParentStatements(Head(keys)[1], parents[Head(keys)])
         \o Statements(Tail(keys), parents)

\* the statement's key is already in its table
Conflict(d, st) ==
    CASE st.op = "upsert_category" -> st.id \in DOMAIN d.categories
      [] st.op = "upsert_trope" -> st.id \in DOMAIN d.tropes
      [] st.op = "upsert_membership" -> <<st.category_id, st.member_id>> \in d.members

\* sqlite3.IntegrityError: a key conflict that no ON CONFLICT clause resolves
Raises(d, st) == Conflict(d, st) /\ OnConflict(st.op) = "ABORT"

Execute(d, st) ==
    CASE st.op = "upsert_category" -> upsert_category(d, st.id, st.title)
      [] st.op = "upsert_trope" -> upsert_trope(d, st.id, st.title)
      [] st.op = "upsert_membership" -> upsert_membership(d, st.category_id, st.member_id)

\* cursor.execute of the first n statements: the rows the connection then
\* sees, and whether a statement raised
RECURSIVE Run(_, _, _)
Run(d, sts, n) ==
    IF n = 0 \/ sts = <<>> THEN [rows |-> d, raised |-> FALSE]
    ELSE IF Raises(d, Head(sts)) THEN [rows |-> d, raised |-> TRUE]
    ELSE Run(Execute(d, Head(sts)), Tail(sts), n - 1)

\* closing(connection) without a commit: the open transaction is rolled back
CloseKeepsWrites(committed, work) == work

CloseWithoutCommit(committed, work) == committed

\* the (parent id, member id) pairs of a Snapshot
SnapshotEdges(snap) ==
    UNION {{<<c[1], k[1]>> : c \in snap[k]} : k \in DOMAIN snap}

\* upsert_category_members(members): the statements run in one transaction.
\* The call reaches connection.commit(), or a statement raises, or the call
\* fails after n statements (the database is locked, the disk is full).
upsert_category_members(snap, sts, n) ==
    LET r == Run(db, sts, n)
    IN /\ outcome = "none"
       /\ lastSnap' = snap
       /\ uncommitted' = r.rows
       /\ IF r.raised
          THEN /\ db' = CloseWithoutCommit(db, r.rows)
               /\ outcome' = "raised"
               /\ UNCHANGED upserted
          ELSE IF n = Len(sts)
          THEN /\ db' = r.rows
               /\ outcome' = "committed"
               /\ upserted' = upserted \cup SnapshotEdges(snap)
          ELSE /\ db' = CloseWithoutCommit(db, r.rows)
               /\ outcome' = "failed"
               /\ UNCHANGED upserted

\* every Snapshot with every order its statements can run in
Calls ==
    UNION {{[snap |-> s, sts |-> Statements(o.keys, o.parents)] : o \in Orders(s)} : s \in Snapshots}

Upsert ==
    \E c \in Calls : \E n \in 0..Len(c.sts) : upsert_category_members(c.snap, c.sts, n)

\* a new database file, and no walker running
StoreInit ==
    /\ db = EmptyDb
    /\ uncommitted = EmptyDb
    /\ lastSnap = EmptySnapshot
    /\ outcome = "none"
    /\ upserted = {}
    /\ h_pc = "idle"
    /\ limit = 0
    /\ min_members = 0
    /\ queue = <<>>
    /\ rows = <<>>
    /\ pc = "done"
    /\ query_params = InitialParams
    /\ members = EmptySnapshot
    /\ num_members = 0
    /\ max_members = None
    /\ exclude_pages = {}
    /\ dict = NoResponse
    /\ cache = [n \in {} |-> None]
    /\ wiki = [n \in CategoryNames |-> [query |-> None]]
    /\ requests = 0
    /\ url = {}
    /\ prev_url = {}
    /\ yielded_total = 0
    /\ seen = {}
    /\ seen_pages = {}
    /\ lookups = [p \in {} |-> 0]
    /\ first = [p \in {} |-> <<>>]
    /\ answer = <<>>
    /\ result = <<>>
    /\ txn = [w \in {1, 2} |-> [state |-> "idle"]]
    /\ lock = 0
    /\ observed = db
    /\ held = <<>>
    /\ batches = <<>>

\* the call has returned (or raised) and the caller lets go of the Snapshot
Return ==
    /\ outcome # "none"
    /\ outcome' = "none"
    /\ lastSnap' = EmptySnapshot
    /\ uncommitted' = db
    /\ UNCHANGED <<db, upserted>>

StoreNext ==
    (Upsert \/ Return)
        /\ UNCHANGED <<walker_vars, hierarchy_vars, resolver_vars, concurrent_vars, consumer_vars>>

SpecStore == StoreInit /\ [][StoreNext]_vars

-----------------------------------------------------------------------------
\* Properties of the membership store (checked under SpecStore).

\* the table upsert_category_members writes a member page's title row to
MemberTable(d, page) ==
    IF startswith(page[2], CategoryPrefix) THEN d.categories ELSE d.tropes

\* C5: upsert_category_members is idempotent: once a call with a Snapshot has
\* committed, a second call with the same Snapshot, whatever order it visits
\* the Snapshot in, raises no error and leaves tropes, categories and members
\* exactly as the first call left them.
C5_UpsertIdempotent ==
    outcome = "committed" =>
        \A o \in Orders(lastSnap) :
            LET sts == Statements(o.keys, o.parents)
                again == Run(db, sts, Len(sts))
            IN ~again.raised /\ again.rows = db

\* a committed call whose Snapshot carries edges and a title that differs
\* from the one stored for its id, so that the second call meets conflicts
C5_Witness ==
    /\ outcome = "committed"
    /\ SnapshotEdges(lastSnap) # {}
    /\ \E k \in DOMAIN lastSnap :
          MemberTable(db, k)[k[1]] # removeprefix(k[2], CategoryPrefix)

\* C6: starting from an empty store, the members table is exactly the set of
\* (parent id, member id) pairs of the Snapshots upserted so far, whatever the
\* order of the calls and of the statements inside each call.
C6_MembersAreSnapshotEdges == db.members = upserted

\* two committed calls have stored edges of two different categories
C6_Witness ==
    /\ outcome = "committed"
    /\ Cardinality(db.members) >= 3
    /\ SnapshotEdges(lastSnap) # {}
    /\ SnapshotEdges(lastSnap) # db.members

\* C8: every edge of the committed members table has a categories row for its
\* category_id and a tropes or categories row for its member_id.
C8_EdgeEndpointsHaveRows ==
    \A e \in db.members :
        /\ e[1] \in DOMAIN db.categories
        /\ e[2] \in DOMAIN db.tropes \/ e[2] \in DOMAIN db.categories

\* edges are stored, one to a trope and one to a sub-category
C8_Witness ==
    /\ \E e \in db.members : e[2] \in DOMAIN db.tropes /\ e[2] \notin DOMAIN db.categories
    /\ \E e \in db.members : e[2] \notin DOMAIN db.tropes /\ e[2] \in DOMAIN db.categories

\* C9: an upsert of an id that already has a row in the same identity table
\* leaves the stored title as it is, and no call ends with a statement raising.
C9_FirstTitlePersists ==
    [][/\ \A i \in DOMAIN db.tropes :
            i \in DOMAIN db'.tropes /\ db'.tropes[i] = db.tropes[i]
       /\ \A i \in DOMAIN db.categories :
            i \in DOMAIN db'.categories /\ db'.categories[i] = db.categories[i]
       /\ outcome' # "raised"]_vars

\* a call committed a Snapshot holding, for an id, a title other than the
\* stored one: in tropes and in categories
C9_Witness ==
    /\ outcome = "committed"
    /\ \E k \in DOMAIN lastSnap :
          ~startswith(k[2], CategoryPrefix) /\ db.tropes[k[1]] # k[2]
    /\ \E k \in DOMAIN lastSnap : \E c \in lastSnap[k] :
          db.categories[c[1]] # removeprefix(c[2], CategoryPrefix)

\* every title row and edge of the Snapshot is in the store
Recorded(snap, d) ==
    \A k \in DOMAIN snap :
        /\ k[1] \in DOMAIN MemberTable(d, k)
        /\ \A c \in snap[k] : c[1] \in DOMAIN d.categories /\ <<c[1], k[1]>> \in d.members

\* C10: a call that fails before its commit leaves the committed rows as they
\* were before the call; a call that commits has recorded every title row and
\* edge of its Snapshot.
C10_UpsertAtomic ==
    [][/\ (outcome = "none" /\ outcome' \in {"failed", "raised"}) => db' = db
       /\ outcome' = "committed" => Recorded(lastSnap', db')]_vars

\* a call failed after statements that had written rows of its Snapshot
C10_Witness ==
    /\ outcome = "failed"
    /\ uncommitted # db
    /\ uncommitted.members # db.members

\* C17: the store is append-only: no step, whether a call commits, fails or
\* returns, takes an id out of tropes, an id out of categories or an edge out
\* of members.
C17_AppendOnly ==
    [][/\ DOMAIN db.tropes \subseteq DOMAIN db'.tropes
       /\ DOMAIN db.categories \subseteq DOMAIN db'.categories
       /\ db.members \subseteq db'.members]_vars

\* a later call committed a Snapshot of a member the store already held
\* under another category: the edges of the earlier Snapshot are still there
C17_Witness ==
    /\ outcome = "committed"
    /\ \E k \in DOMAIN lastSnap :
          /\ lastSnap[k] # {}
          /\ \E e \in db.members : e[2] = k[1] /\ e[1] \notin {c[1] : c \in lastSnap[k]}
    /\ DOMAIN db.tropes # {}

\* C23: in every committed state of the store the declared foreign keys of
\* the members table hold: every edge has a categories row for its
\* category_id and a tropes row for its member_id, also when the member is a
\* page titled 'Category:...'.
C23_DeclaredForeignKeysHold == ForeignKeys(db)

-----------------------------------------------------------------------------
\* Concurrent crawl runs: several processes in upsert_category_members on one
\* database file, and a reader.  Each call has its own connection (line 199).
\* Its first INSERT begins the connection's implicit transaction and takes the
\* database's write lock; a connection that finds the lock held raises
\* 'database is locked' when its timeout expires.

Writers == {1, 2}

\* Snapshots of one member page with two parents
ConcurrentCalls ==
    {c \in Calls : Cardinality(DOMAIN c.snap) = 1 /\ Len(c.sts) = 5}

\* line 199, sqlite3.connect with the default isolation_level: what the other
\* connections see of the rows a connection has written and not committed
VisibleToOthersAutocommit(committed, work) == work

VisibleToOthers(committed, work) == committed

\* lines 221-226, the first cursor.execute of a call
Begin(w, c) ==
    /\ txn[w].state = "idle"
    /\ IF lock # 0
       THEN /\ txn' = [txn EXCEPT ![w] = [state |-> "busy"]]
            /\ UNCHANGED <<db, lock>>
       ELSE /\ lock' = w
            /\ txn' = [txn EXCEPT ![w] =
                          [state |-> "open", snap |-> c.snap, sts |-> c.sts, i |-> 1,
                           base |-> db, work |-> Execute(db, c.sts[1])]]
            /\ db' = VisibleToOthers(db, Execute(db, c.sts[1]))
    /\ UNCHANGED observed

\* lines 224-231, a later cursor.execute of the call
Step(w) ==
    /\ txn[w].state = "open"
    /\ txn[w].i < Len(txn[w].sts)
    /\ ~Raises(txn[w].work, txn[w].sts[txn[w].i + 1])
    /\ txn' = [txn EXCEPT ![w].i = @ + 1,
                          ![w].work = Execute(@, txn[w].sts[txn[w].i + 1])]
    /\ db' = VisibleToOthers(db, txn'[w].work)
    /\ UNCHANGED <<lock, observed>>

\* line 233, connection.commit(), and the close of the connection
Commit(w) ==
    /\ txn[w].state = "open"
    /\ txn[w].i = Len(txn[w].sts)
    /\ db' = txn[w].work
    /\ lock' = 0
    /\ txn' = [txn EXCEPT ![w] = [state |-> "idle"]]
    /\ UNCHANGED observed

\* the call fails before line 233 (the disk is full, the process is killed):
\* the connection is closed without a commit
Abort(w) ==
    /\ txn[w].state = "open"
    /\ db' = CloseWithoutCommit(db, txn[w].work)
    /\ lock' = 0
    /\ txn' = [txn EXCEPT ![w] = [state |-> "idle"]]
    /\ UNCHANGED observed

\* 'database is locked' leaves the call
LockedOut(w) ==
    /\ txn[w].state = "busy"
    /\ txn' = [txn EXCEPT ![w] = [state |-> "idle"]]
    /\ UNCHANGED <<db, lock, observed>>

\* a SELECT of the reader (show_hierachy2, lines 488-490): it sees the rows
\* other connections have committed
Read ==
    /\ observed' = db
    /\ UNCHANGED <<db, lock, txn>>

\* a new database file, no walker, two runs and a reader
ConcurrentInit ==
    /\ db = [tropes |-> [i \in {} |-> <<>>], categories |-> [i \in {} |-> <<>>], members |-> {}]
    /\ uncommitted = db
    /\ lastSnap = [k \in {} |-> {}]
    /\ outcome = "none"
    /\ upserted = {}
    /\ h_pc = "idle"
    /\ limit = 0
    /\ min_members = 0
    /\ queue = <<>>
    /\ rows = <<>>
    /\ pc = "done"
    /\ query_params = InitialParams
    /\ members = [k \in {} |-> {}]
    /\ num_members = 0
    /\ max_members = None
    /\ exclude_pages = {}
    /\ dict = NoResponse
    /\ cache = [n \in {} |-> None]
    /\ wiki = [n \in CategoryNames |-> [query |-> None]]
    /\ requests = 0
    /\ url = {}
    /\ prev_url = {}
    /\ yielded_total = 0
    /\ seen = {}
    /\ seen_pages = {}
    /\ lookups = [p \in {} |-> 0]
    /\ first = [p \in {} |-> <<>>]
    /\ answer = <<>>
    /\ result = <<>>
    /\ txn = [w \in {1, 2} |-> [state |-> "idle"]]
    /\ lock = 0
    /\ observed = db
    /\ held = <<>>
    /\ batches = <<>>

ConcurrentNext ==
    /\ \/ \E w \in Writers : \E c \in ConcurrentCalls : Begin(w, c)
       \/ \E w \in Writers : Step(w)
       \/ \E w \in Writers : Commit(w)
       \/ \E w \in Writers : Abort(w)
       \/ \E w \in Writers : LockedOut(w)
       \/ Read
    /\ UNCHANGED <<uncommitted, lastSnap, outcome, upserted>>
    /\ UNCHANGED <<walker_vars, hierarchy_vars, resolver_vars, consumer_vars>>

SpecConcurrent == ConcurrentInit /\ [][ConcurrentNext]_vars

\* the edges the open call of a run has still to commit
Pending(w) == SnapshotEdges(txn[w].snap) \ txn[w].base.members

\* C15: each Snapshot upsert takes effect as one transaction.  Whatever the
\* reader has seen, and whatever a run's connection saw when it began its
\* call, has for every edge the title rows of both endpoints and holds no
\* edge that an open call has still to commit; and the committed rows change
\* only by the commit of a call, to hold every title row and edge of its
\* Snapshot.
C15_SnapshotUpsertIsolated ==
    [][/\ \A v \in {observed'} \cup {txn'[w].base : w \in {x \in Writers : txn'[x].state = "open"}} :
            /\ \A e \in v.members :
                  /\ e[1] \in DOMAIN v.categories
                  /\ e[2] \in DOMAIN v.tropes \/ e[2] \in DOMAIN v.categories
            /\ \A w \in Writers :
                  txn'[w].state = "open" => v.members \cap Pending(w)' = {}
       /\ db' # db =>
            \E w \in Writers :
                /\ txn[w].state = "open"
                /\ txn'[w].state = "idle"
                /\ Recorded(txn[w].snap, db')
                /\ db'.members = db.members \cup SnapshotEdges(txn[w].snap)]_vars

\* the reader read the store while a run had written both edges of its
\* Snapshot and not committed, after an earlier commit, and the other run was
\* locked out
C15_Witness ==
    /\ \E w \in Writers :
          /\ txn[w].state = "open"
          /\ txn[w].i = Len(txn[w].sts)
          /\ Cardinality(txn[w].work.members \ observed.members) = 2
          /\ \E x \in Writers : txn[x].state = "busy"
    /\ observed.members # {}
    /\ observed = db
    /\ held = <<>>
    /\ batches = <<>>

-----------------------------------------------------------------------------
\* The hierarchy resolver: show_hierachy2.

Nodes == {1, 2, 3}

NodeTitle(i) == CASE i = 1 -> <<"P">> [] i = 2 -> <<"Q">> [] i = 3 -> <<"R">>

\* stored graphs: every node has a title row in categories, in tropes or in
\* both; every edge has a categories row for its category_id
StoredGraphs ==
    UNION {
        { [tropes |-> [i \in {n \in Nodes : role[n] \in {"trope", "both"}} |-> NodeTitle(i)],
           categories |-> [i \in {n \in Nodes : role[n] \in {"category", "both"}} |-> NodeTitle(i)],
           members |-> es] :
          es \in {e \in SUBSET ({n \in Nodes : role[n] \in {"category", "both"}} \X Nodes) :
                    Cardinality(e) <= MaxEdges} } :
        role \in [Nodes -> {"category", "trope", "both"}] }

\* lines 432-447: the categories that are no member and have more than
\* min_members members
InitialSelectAtLeast(d, min) ==
    { [iter |-> 1, category_id |-> None, category_title |-> None, member_id |-> id,
       path |-> d.categories[id]] :
      id \in {i \in DOMAIN d.categories :
                /\ ~\E e \in d.members : e[2] = i
                /\ Cardinality({e \in d.members : e[1] = i}) >= min} }

InitialSelect(d, min) ==
    { [iter |-> 1, category_id |-> None, category_title |-> None, member_id |-> id,
       path |-> d.categories[id]] :
      id \in {i \in DOMAIN d.categories :
                /\ ~\E e \in d.members : e[2] = i
                /\ Cardinality({e \in d.members : e[1] = i}) > min} }

\* lines 453-462: the sub-categories of the row's member
MoveDownCategories(d, row) ==
    { [iter |-> row.iter + 1, category_id |-> Some(e[1]), category_title |-> Some(d.categories[e[1]]),
       member_id |-> e[2], path |-> row.path \o <<"->">> \o d.categories[e[2]]] :
      e \in {x \in d.members : /\ x[1] = row.member_id
                               /\ x[1] \in DOMAIN d.categories
                               /\ x[2] \in DOMAIN d.categories} }

\* lines 467-476: the tropes of the row's member
MoveDownTropesArrow(d, row) ==
    { [iter |-> row.iter + 1, category_id |-> Some(e[1]), category_title |-> Some(d.categories[e[1]]),
       member_id |-> e[2], path |-> row.path \o <<"->">> \o d.tropes[e[2]]] :
      e \in {x \in d.members : /\ x[1] = row.member_id
                               /\ x[1] \in DOMAIN d.categories
                               /\ x[2] \in DOMAIN d.tropes} }

MoveDownTropes(d, row) ==
    { [iter |-> row.iter + 1, category_id |-> Some(e[1]), category_title |-> Some(d.categories[e[1]]),
       member_id |-> e[2], path |-> row.path \o <<"=>">> \o d.tropes[e[2]]] :
      e \in {x \in d.members : /\ x[1] = row.member_id
                               /\ x[1] \in DOMAIN d.categories
                               /\ x[2] \in DOMAIN d.tropes} }

\* line 478, LIMIT: whether one more row may be added to member_hierarchy
UnderLimitInclusive(n, lim) == n <= lim

UnderLimitIgnored(n, lim) == TRUE

UnderLimit(n, lim) == n < lim

\* cursor.execute, lines 429-489: the initial select fills the queue, in an
\* order the engine chooses
show_hierachy2(lim, min) ==
    /\ h_pc = "idle"
    /\ limit' = lim
    /\ min_members' = min
    /\ \E order \in Perms(InitialSelect(db, min)) : queue' = order
    /\ rows' = <<>>
    /\ h_pc' = IF UnderLimit(0, lim) THEN "running" ELSE "done"

\* one step of the recursion: the first row of the queue is added to
\* member_hierarchy, and the two recursive selects run on it
RecursiveStep ==
    /\ h_pc = "running"
    /\ queue # <<>>
    /\ rows' = Append(rows, Head(queue))
    /\ IF UnderLimit(Len(rows) + 1, limit)
       THEN /\ \E cs \in Perms(MoveDownCategories(db, Head(queue))) :
                \E ts \in Perms(MoveDownTropes(db, Head(queue))) :
                    queue' = Tail(queue) \o cs \o ts
            /\ h_pc' = "running"
       ELSE /\ queue' = Tail(queue)
            /\ h_pc' = "done"
    /\ UNCHANGED <<limit, min_members>>

\* the queue is empty: the query is complete
QueueEmpty ==
    /\ h_pc = "running"
    /\ queue = <<>>
    /\ h_pc' = "done"
    /\ UNCHANGED <<limit, min_members, queue, rows>>

HierarchyInit ==
    /\ db \in StoredGraphs
    /\ uncommitted = db
    /\ lastSnap = [k \in {} |-> {}]
    /\ outcome = "none"
    /\ upserted = db.members
    /\ h_pc = "idle"
    /\ limit = 0
    /\ min_members = 0
    /\ queue = <<>>
    /\ rows = <<>>
    /\ pc = "done"
    /\ query_params = InitialParams
    /\ members = [k \in {} |-> {}]
    /\ num_members = 0
    /\ max_members = None
    /\ exclude_pages = {}
    /\ dict = NoResponse
    /\ cache = [n \in {} |-> None]
    /\ wiki = [n \in CategoryNames |-> [query |-> None]]
    /\ requests = 0
    /\ url = {}
    /\ prev_url = {}
    /\ yielded_total = 0
    /\ seen = {}
    /\ seen_pages = {}
    /\ lookups = [p \in {} |-> 0]
    /\ first = [p \in {} |-> <<>>]
    /\ answer = <<>>
    /\ result = <<>>
    /\ txn = [w \in {1, 2} |-> [state |-> "idle"]]
    /\ lock = 0
    /\ observed = db
    /\ held = <<>>
    /\ batches = <<>>

HierarchyNext ==
    \/ (\E lim \in 0..MaxLimit : \E min \in 0..MaxMin : show_hierachy2(lim, min))
          /\ UNCHANGED <<walker_vars, store_vars, resolver_vars, concurrent_vars, consumer_vars>>
    \/ RecursiveStep /\ UNCHANGED <<walker_vars, store_vars, resolver_vars, concurrent_vars, consumer_vars>>
    \/ QueueEmpty /\ UNCHANGED <<walker_vars, store_vars, resolver_vars, concurrent_vars, consumer_vars>>

SpecHierarchy == HierarchyInit /\ [][HierarchyNext]_vars

\* The query followed to its end: cursor.execute runs the recursion without
\* pause until the engine ends it, so a step that can be taken is taken.
\* a step of the recursion, while member_hierarchy fits the model
EngineStep == Len(rows) < MaxRows /\ RecursiveStep

HierarchyLiveNext ==
    \/ (\E lim \in 0..MaxLimit : \E min \in 0..MaxMin : show_hierachy2(lim, min))
          /\ UNCHANGED <<walker_vars, store_vars, resolver_vars, concurrent_vars, consumer_vars>>
    \/ EngineStep /\ UNCHANGED <<walker_vars, store_vars, resolver_vars, concurrent_vars, consumer_vars>>
    \/ QueueEmpty /\ UNCHANGED <<walker_vars, store_vars, resolver_vars, concurrent_vars, consumer_vars>>

SpecHierarchyLive ==
    /\ HierarchyInit
    /\ [][HierarchyLiveNext]_vars
    /\ WF_vars((EngineStep \/ QueueEmpty)
                  /\ UNCHANGED <<walker_vars, store_vars, resolver_vars, concurrent_vars, consumer_vars>>)

-----------------------------------------------------------------------------
\* Properties of the hierarchy resolver (checked under SpecHierarchy).

\* the stored graph has a cycle that the row's member can reach
OnCycle(i) ==
    \E j \in Nodes : <<i, j>> \in db.members /\ (j = i \/ <<j, i>> \in db.members)

\* C7: show_hierachy2 with limit = N returns at most N rows, root rows
\* included, whatever the stored graph; with N rows the query has ended.
C7_AtMostLimitRows ==
    /\ Len(rows) <= limit
    /\ h_pc = "running" => Len(rows) < limit

\* the limit cut the expansion of a graph with a cycle below a root: the
\* query is done with exactly limit rows, the last one on a cycle, and rows
\* were still due
C7_Witness ==
    /\ h_pc = "done"
    /\ limit = MaxLimit
    /\ Len(rows) = limit
    /\ rows[1].category_id = None
    /\ OnCycle(rows[Len(rows)].member_id)
    /\ rows[Len(rows)].iter = limit

\* the rows the recursive query has computed: those added to
\* member_hierarchy and those still in its queue
Computed == {rows[i] : i \in DOMAIN rows} \cup {queue[i] : i \in DOMAIN queue}

\* the node has a categories row, no stored edge has it as member_id, and
\* more than min stored edges have it as category_id
IsRoot(n, min) ==
    /\ n \in DOMAIN db.categories
    /\ \A e \in db.members : e[2] # n
    /\ Cardinality({e \in db.members : e[1] = n}) > min

\* C19: once show_hierachy2 has run its initial select, the rows with
\* iter = 1 are the rows with no category_id, and a node has such a row if
\* and only if it has a categories row, no stored edge has it as member_id
\* and strictly more than min_members stored edges have it as category_id.
C19_RootsAreUnownedAboveMin ==
    h_pc # "idle" =>
        /\ \A r \in Computed : (r.iter = 1) <=> (r.category_id = None)
        /\ \A n \in Nodes :
              (\E r \in Computed : r.iter = 1 /\ r.member_id = n) <=> IsRoot(n, min_members)

\* the query returned a root with its member, and left out a category that
\* no edge has as member and that has exactly min_members members
C19_Witness ==
    /\ h_pc = "done"
    /\ Len(rows) >= 2
    /\ rows[1].iter = 1
    /\ \E n \in DOMAIN db.categories :
          /\ \A e \in db.members : e[2] # n
          /\ Cardinality({e \in db.members : e[1] = n}) = min_members
          /\ \A r \in Computed : r.member_id # n

\* C22: show_hierachy2 terminates on every finite stored graph with every
\* limit >= 0, also when a cycle of the graph can be reached from a root:
\* once called, the query is eventually done.
C22_HierarchyTerminates == [](h_pc # "idle" => <>(h_pc = "done"))

\* the query ended on a cycle below a root with rows still due, and not
\* because the model ran out of rows
C22_Witness ==
    /\ h_pc = "done"
    /\ limit > 0
    /\ Len(rows) < MaxRows
    /\ queue # <<>>
    /\ rows[1].category_id = None
    /\ \E i \in DOMAIN queue : OnCycle(queue[i].member_id) /\ queue[i].iter > 1

\* the row continues the path of row p along the stored edge from p's member
\* to its own, with the separator and the title of the given table
Extends(r, p, sep, table) ==
    /\ r.category_id = Some(p.member_id)
    /\ <<p.member_id, r.member_id>> \in db.members
    /\ r.iter = p.iter + 1
    /\ r.member_id \in DOMAIN table
    /\ r.path = p.path \o <<sep>> \o table[r.member_id]

\* the recursive selects have run on the i-th row of member_hierarchy
Expanded(i) == i < Len(rows) \/ h_pc = "running"

\* C21: every row of show_hierachy2 that is no root row continues the path
\* of a row already in member_hierarchy along a stored edge from that row's
\* member, with '->' and the member's categories title or with '=>' and the
\* member's tropes title, and every row the recursive selects ran on has
\* such a row for each of its member's edges; so every path starts with the
\* title of a root, and when no id has a row in both tables '=>' occurs only
\* as the last separator of a path.
C21_PathsExtendAlongEdges ==
    h_pc # "idle" =>
        /\ \A r \in Computed :
              r.category_id # None =>
                  \E i \in DOMAIN rows :
                      \/ Extends(r, rows[i], "->", db.categories)
                      \/ Extends(r, rows[i], "=>", db.tropes)
        /\ \A i \in DOMAIN rows :
              Expanded(i) /\ rows[i].member_id \in DOMAIN db.categories =>
                  \A e \in db.members :
                      e[1] = rows[i].member_id =>
                          /\ e[2] \in DOMAIN db.categories =>
                                \E r \in Computed :
                                    r.member_id = e[2] /\ Extends(r, rows[i], "->", db.categories)
                          /\ e[2] \in DOMAIN db.tropes =>
                                \E r \in Computed :
                                    r.member_id = e[2] /\ Extends(r, rows[i], "=>", db.tropes)
        /\ \A r \in Computed :
              \E n \in Nodes : IsRoot(n, min_members) /\ startswith(r.path, db.categories[n])
        /\ DOMAIN db.tropes \cap DOMAIN db.categories = {} =>
              \A r \in Computed :
                  \A i \in DOMAIN r.path : r.path[i] = "=>" => i = Len(r.path) - 1

\* the query returned a path of three titles, a root, a sub-category and a
\* trope, in a store where no id has a row in both tables
C21_Witness ==
    /\ h_pc = "done"
    /\ DOMAIN db.tropes \cap DOMAIN db.categories = {}
    /\ \E i \in DOMAIN rows :
          /\ Len(rows[i].path) = 5
          /\ rows[i].path[2] = "->"
          /\ rows[i].path[4] = "=>"
          /\ rows[i].iter = 3

-----------------------------------------------------------------------------
\* The crawl: get_category_members2, the walker feeding the store.

\* lines 536-537: the except clause prints the traceback and leaves the store
\* alone
except_flush(d, acc) ==
    LET o == CHOOSE x \in Orders(acc) : TRUE
        sts == Statements(o.keys, o.parents)
    IN Run(d, sts, Len(sts)).rows

except_clause(d, acc) == d

\* lines 167-170: urlopen, or the decoding of the response, raises.  The
\* exception leaves the generator and the for statement of line 533.
RequestRaises ==
    /\ pc = "loop"
    /\ LoopCondition
    /\ requests' = requests + 1
    /\ url' = urlencode(query_params)
    /\ prev_url' = url
    /\ pc' = "raised"
    /\ db' = except_clause(db, members)
    /\ uncommitted' = db'
    /\ UNCHANGED <<query_params, members, num_members, max_members, exclude_pages,
                   dict, cache, wiki, yielded_total, seen, seen_pages>>
    /\ UNCHANGED <<lastSnap, outcome, upserted>>

\* line 175: the response is decoded, and a lookup of one of its category
\* names raises, after the lookups and the pages that came before it
LookupRaises(response) ==
    LET pages == PagesIn(response)
        names == UNION {{removeprefix(t, CategoryPrefix) : t \in r.categories} : r \in pages}
        lookup == Lookup(names)
        new == DOMAIN lookup \ DOMAIN cache
        keys(r) == {CacheKey(removeprefix(t, CategoryPrefix), DefaultEndpoint) : t \in r.categories}
    IN /\ pc = "loop"
       /\ LoopCondition
       /\ new # {}
       /\ \E K \in (SUBSET new) \ {new} : \E merged \in (SUBSET pages) \ {pages} :
             /\ \A r \in merged : keys(r) \subseteq DOMAIN cache \cup K
             /\ cache' = [k \in DOMAIN cache \cup K |-> lookup[k]]
             /\ members' = Merge(members, merged, lookup)
             /\ seen' = seen \cup UNION {{<<r.pageid, r.title>>} \X r.categories : r \in merged}
             /\ seen_pages' = seen_pages \cup {<<r.pageid, r.title>> : r \in merged}
             /\ db' = except_clause(db, members')
       /\ requests' = requests + 1
       /\ url' = urlencode(query_params)
       /\ prev_url' = url
       /\ dict' = response
       /\ pc' = "raised"
       /\ uncommitted' = db'
       /\ UNCHANGED <<query_params, num_members, max_members, exclude_pages, wiki, yielded_total>>
       /\ UNCHANGED <<lastSnap, outcome, upserted>>

\* line 535: the yielded Snapshot is upserted
UpsertYielded ==
    /\ pc = "yielded"
    /\ \E o \in Orders(members) :
          \E n \in 0..Len(Statements(o.keys, o.parents)) :
              upsert_category_members(members, Statements(o.keys, o.parents), n)

\* line 533: the upsert has returned, and the for statement asks the
\* generator for its next Snapshot
NextSnapshot ==
    /\ outcome = "committed"
    /\ Return
    /\ Resume

\* the upsert raised: the exception leaves the for statement, and the
\* generator, suspended at its yield, is dropped
UpsertRaises ==
    /\ pc = "yielded"
    /\ outcome \in {"failed", "raised"}
    /\ Return
    /\ pc' = "closed"
    /\ UNCHANGED <<query_params, members, num_members, max_members, exclude_pages,
                   dict, cache, wiki, requests, url, prev_url, yielded_total,
                   seen, seen_pages>>

CrawlNext ==
    \/ (\E response \in Responses : requests < MaxRequests /\ Request(response))
          /\ UNCHANGED <<store_vars, hierarchy_vars, resolver_vars, concurrent_vars, consumer_vars>>
    \/ (requests < MaxRequests /\ RequestRaises) /\ UNCHANGED <<hierarchy_vars, resolver_vars, concurrent_vars, consumer_vars>>
    \/ (\E response \in Responses : requests < MaxRequests /\ LookupRaises(response))
          /\ UNCHANGED <<hierarchy_vars, resolver_vars, concurrent_vars, consumer_vars>>
    \/ UpsertYielded /\ UNCHANGED <<walker_vars, hierarchy_vars, resolver_vars, concurrent_vars, consumer_vars>>
    \/ NextSnapshot /\ UNCHANGED <<hierarchy_vars, resolver_vars, concurrent_vars, consumer_vars>>
    \/ UpsertRaises /\ UNCHANGED <<hierarchy_vars, resolver_vars, concurrent_vars, consumer_vars>>
    \/ Exhausted /\ UNCHANGED <<store_vars, hierarchy_vars, resolver_vars, concurrent_vars, consumer_vars>>

\* get_category_members2(category, max_members) at line 533, beside a new
\* database file, with no site-maintenance page to exclude
CrawlInit ==
    /\ db = [tropes |-> [i \in {} |-> <<>>], categories |-> [i \in {} |-> <<>>], members |-> {}]
    /\ uncommitted = db
    /\ lastSnap = [k \in {} |-> {}]
    /\ outcome = "none"
    /\ upserted = {}
    /\ h_pc = "idle"
    /\ limit = 0
    /\ min_members = 0
    /\ queue = <<>>
    /\ rows = <<>>
    /\ pc = "loop"
    /\ query_params = InitialParams
    /\ members = [k \in {} |-> {}]
    /\ num_members = 0
    /\ max_members \in {None, Some(MaxCap)}
    /\ exclude_pages = {}
    /\ dict = NoResponse
    /\ cache = [n \in {} |-> None]
    /\ wiki \in {w \in [CategoryNames -> UNION {WalkLookups(n) : n \in CategoryNames}] :
                    \A n \in CategoryNames : w[n] \in WalkLookups(n)}
    /\ requests = 0
    /\ url = {}
    /\ prev_url = {}
    /\ yielded_total = 0
    /\ seen = {}
    /\ seen_pages = {}
    /\ lookups = [p \in {} |-> 0]
    /\ first = [p \in {} |-> <<>>]
    /\ answer = <<>>
    /\ result = <<>>
    /\ txn = [w \in {1, 2} |-> [state |-> "idle"]]
    /\ lock = 0
    /\ observed = db
    /\ held = <<>>
    /\ batches = <<>>

SpecCrawl == CrawlInit /\ [][CrawlNext]_vars

-----------------------------------------------------------------------------
\* The walker alone.

WalkerNext ==
    \/ (\E response \in Responses : requests < MaxRequests /\ Request(response))
          /\ UNCHANGED <<store_vars, hierarchy_vars, resolver_vars, concurrent_vars, consumer_vars>>
    \/ Resume /\ UNCHANGED <<store_vars, hierarchy_vars, resolver_vars, concurrent_vars, consumer_vars>>
    \/ Exhausted /\ UNCHANGED <<store_vars, hierarchy_vars, resolver_vars, concurrent_vars, consumer_vars>>

SpecWalker == WalkerInit /\ [][WalkerNext]_vars

\* A consumer of the walker that keeps every Snapshot it is handed:
\*     kept = [members for members in category_members(category)]
\* Line 165 makes one defaultdict, line 184 yields that object and line 185
\* clears it in place: a reference the consumer keeps shows what the
\* accumulator holds now.
YieldedCopy(kept, acc) == kept

SameObject(kept, acc) == acc

\* what the kept references show after a step of the walker, and the
\* reference a yield adds to them
Keep ==
    LET shown == [i \in DOMAIN held |-> SameObject(held[i], members')]
    IN IF pc' = "yielded"
       THEN /\ held' = Append(shown, members')
            /\ batches' = Append(batches, members')
       ELSE /\ held' = shown
            /\ UNCHANGED batches

ConsumerInit ==
    /\ db = [tropes |-> [i \in {} |-> <<>>], categories |-> [i \in {} |-> <<>>], members |-> {}]
    /\ uncommitted = db
    /\ lastSnap = [k \in {} |-> {}]
    /\ outcome = "none"
    /\ upserted = {}
    /\ h_pc = "idle"
    /\ limit = 0
    /\ min_members = 0
    /\ queue = <<>>
    /\ rows = <<>>
    /\ pc = "loop"
    /\ query_params = InitialParams
    /\ members = [k \in {} |-> {}]
    /\ num_members = 0
    /\ max_members \in {NormalizeMax(a) : a \in MaxMembersArgs}
    /\ exclude_pages = {}
    /\ dict = NoResponse
    /\ cache = [n \in {} |-> None]
    /\ wiki \in {w \in [CategoryNames -> UNION {WalkLookups(n) : n \in CategoryNames}] :
                    \A n \in CategoryNames : w[n] \in WalkLookups(n)}
    /\ requests = 0
    /\ url = {}
    /\ prev_url = {}
    /\ yielded_total = 0
    /\ seen = {}
    /\ seen_pages = {}
    /\ lookups = [p \in {} |-> 0]
    /\ first = [p \in {} |-> <<>>]
    /\ answer = <<>>
    /\ result = <<>>
    /\ txn = [w \in {1, 2} |-> [state |-> "idle"]]
    /\ lock = 0
    /\ observed = db
    /\ held = <<>>
    /\ batches = <<>>

ConsumerNext ==
    \/ (\E response \in Responses : requests < MaxRequests /\ Request(response) /\ Keep)
          /\ UNCHANGED <<store_vars, hierarchy_vars, resolver_vars, concurrent_vars>>
    \/ (Resume /\ Keep) /\ UNCHANGED <<store_vars, hierarchy_vars, resolver_vars, concurrent_vars>>
    \/ Exhausted /\ UNCHANGED <<store_vars, hierarchy_vars, resolver_vars, concurrent_vars, consumer_vars>>

SpecConsumer == ConsumerInit /\ [][ConsumerNext]_vars

\* C24: category_members yields the same accumulator at every batch
\* completion and clears it when it is resumed: while the walker is suspended
\* at a yield every Snapshot the consumer holds shows the batch of that
\* yield, once the walker is resumed every Snapshot the consumer holds is
\* empty, and at all times each shows what the accumulator holds, so an
\* earlier Snapshot is refilled with the next batch.
C24_YieldedSnapshotIsTheAccumulator ==
    /\ [](\A i \in DOMAIN held :
              /\ held[i] = members
              /\ pc = "yielded" => held[i] = batches[Len(batches)])
    /\ [][pc = "yielded" /\ pc' # "yielded" =>
              \A i \in DOMAIN held' : held'[i] = EmptySnapshot]_vars

\* the consumer holds the Snapshots of two yields; the first batch had a
\* member, and the Snapshot of the first yield now shows the second batch,
\* which has another member
C24_Witness ==
    /\ pc = "yielded"
    /\ Len(held) = 2
    /\ DOMAIN batches[1] # {}
    /\ DOMAIN batches[2] # {}
    /\ batches[1] # batches[2]
    /\ held[1] = batches[2]

\* C25: with max_members set and positive, the running total of yielded
\* members is below max_members whenever category_members issues a request,
\* so the total never exceeds max_members by as much as the size of the last
\* yielded Snapshot; the total can exceed max_members.
C25_CapTestedBeforeEachRequest ==
    /\ [][requests' = requests + 1 /\ max_members # None =>
              num_members < max_members[1]]_vars
    /\ [](max_members # None /\ batches # <<>> =>
              num_members - max_members[1] < Cardinality(DOMAIN batches[Len(batches)]))

\* max_members = 2: a batch of one member, then a batch of two gathered over
\* two requests, and the walker ends with a total of 3
C25_Witness ==
    /\ pc = "done"
    /\ max_members = Some(MaxCap)
    /\ num_members > MaxCap
    /\ Len(batches) = 2
    /\ Cardinality(DOMAIN batches[2]) = 2
    /\ requests = 3

\* The walker followed for ever: the remote answers every request, the
\* consumer asks for every next Snapshot, and no step is left undone.
LiveInit ==
    /\ db = [tropes |-> [i \in {} |-> <<>>], categories |-> [i \in {} |-> <<>>], members |-> {}]
    /\ uncommitted = db
    /\ lastSnap = [k \in {} |-> {}]
    /\ outcome = "none"
    /\ upserted = {}
    /\ h_pc = "idle"
    /\ limit = 0
    /\ min_members = 0
    /\ queue = <<>>
    /\ rows = <<>>
    /\ pc = "loop"
    /\ query_params = InitialParams
    /\ members = [k \in {} |-> {}]
    /\ num_members = 0
    /\ max_members \in {NormalizeMax(a) : a \in {None, Some(0), Some(1)}}
    /\ exclude_pages = {}
    /\ dict = NoResponse
    /\ cache = [n \in {} |-> None]
    /\ wiki = [n \in CategoryNames |-> [query |-> Some([pages |-> Some(<<LookupRecord(n, None)>>)])]]
    /\ requests = 0
    /\ url = {}
    /\ prev_url = {}
    /\ yielded_total = 0
    /\ seen = {}
    /\ seen_pages = {}
    /\ lookups = [p \in {} |-> 0]
    /\ first = [p \in {} |-> <<>>]
    /\ answer = <<>>
    /\ result = <<>>
    /\ txn = [w \in {1, 2} |-> [state |-> "idle"]]
    /\ lock = 0
    /\ observed = db
    /\ held = <<>>
    /\ batches = <<>>

\* the answers of the remote that is followed for ever: with or without
\* batchcomplete, with or without a continuation token, with no pages or with
\* one member page of one parent category
LiveResponses ==
    {r \in Responses :
        PagesIn(r) \subseteq {[pageid |-> 1, title |-> <<"A">>, categories |-> {<<"Category:", "A">>}]}}

LiveNext ==
    \/ (\E response \in LiveResponses : num_members < MaxTotal /\ Request(response))
          /\ UNCHANGED <<store_vars, hierarchy_vars, resolver_vars, concurrent_vars, consumer_vars>>
    \/ Resume /\ UNCHANGED <<store_vars, hierarchy_vars, resolver_vars, concurrent_vars, consumer_vars>>
    \/ Exhausted /\ UNCHANGED <<store_vars, hierarchy_vars, resolver_vars, concurrent_vars, consumer_vars>>

SpecWalkerLive == LiveInit /\ [][LiveNext]_vars /\ WF_vars(LiveNext)

-----------------------------------------------------------------------------
\* Properties of the walker (checked under SpecWalker).

\* the Identity Resolver's answer for a raw category title
Resolved(title) == category_page(wiki[removeprefix(title, CategoryPrefix)])

\* for every member page received since the last yield, the union of its
\* resolved, non-excluded parents over the responses received since then
ExpectedSnapshot ==
    [k \in seen_pages |->
        {c[1] : c \in {Resolved(e[2]) : e \in {x \in seen : x[1] = k}} \ {None}} \ exclude_pages]

\* C1: the walker yields at a response if and only if the response carries
\* batchcomplete = true, it yields at no other moment, and the Snapshot it
\* yields holds, for every member page received since the previous yield, the
\* union of that page's resolved, non-excluded parents over those responses.
C1_YieldPerBatchComplete ==
    [][/\ requests' = requests + 1 => (pc' = "yielded" <=> dict'.batchcomplete = TRUE)
       /\ requests' = requests => ~(pc # "yielded" /\ pc' = "yielded")
       /\ pc' = "yielded" => members' = ExpectedSnapshot']_vars

\* responses (continue, continue, batchcomplete): the third response is the
\* first to yield, and the Snapshot holds two pages, one with two parents
C1_Witness ==
    /\ pc = "yielded"
    /\ requests = 3
    /\ yielded_total = 2
    /\ Cardinality(DOMAIN members) = 2
    /\ \E k \in DOMAIN members : Cardinality(members[k]) = 2

\* C2: the first request carries no key ending in 'continue'; every later
\* request carries every key/value of the continuation token of the response
\* before it, and no key ending in 'continue' that this token does not hold.
C2_ContinuationMerged ==
    [][requests' = requests + 1 =>
         IF requests = 0
         THEN \A kv \in url' : ~endswith(kv[1], ContinueKey)
         ELSE /\ dict.continue # None
              /\ \A k \in DOMAIN dict.continue[1] : <<k, dict.continue[1][k]>> \in url'
              /\ \A kv \in url' :
                    endswith(kv[1], ContinueKey) => kv[1] \in DOMAIN dict.continue[1]]_vars

\* the request that carried gcmcontinue=X was answered with clcontinue=Y, and
\* the request after it carried clcontinue=Y
C2_Witness ==
    /\ requests = 3
    /\ <<<<"cl", "continue">>, "Y">> \in url
    /\ prev_url # {}
    /\ <<<<"gcm", "continue">>, "X">> \in prev_url

\* C3: with max_members set and positive, no request is issued once the sum
\* of the sizes of the yielded Snapshots has reached max_members.
C3_NoRequestAfterCap ==
    [][requests' = requests + 1 =>
         (max_members # None => yielded_total < max_members[1])]_vars

\* max_members = 2, batches of 1 and 2: the walker has stopped after the
\* second batch although its response carried a continuation token
C3_Witness ==
    /\ pc = "done"
    /\ max_members = Some(2)
    /\ yielded_total = 3
    /\ dict.continue # None

\* C4: no page of exclude_pages is in a parent set of a yielded Snapshot.
C4_ExcludedNeverYielded ==
    pc = "yielded" => \A k \in DOMAIN members : members[k] \cap exclude_pages = {}

\* a yielded Snapshot of a page one of whose parents resolved to an excluded
\* page and another to a page that stayed
C4_Witness ==
    /\ pc = "yielded"
    /\ \E k \in DOMAIN members :
          /\ members[k] # {}
          /\ \E e \in seen : e[1] = k /\ Resolved(e[2]) # None /\ Resolved(e[2])[1] \in exclude_pages

\* C11: a response with no continuation token and without batchcomplete = true
\* ends the sequence at once: the walker is done, it has not yielded, and the
\* pages accumulated since the last yield stay out of every yielded Snapshot
\* (the running total of yielded members is the one before the response, and
\* a walker that is done stays done).
C11_PartialBatchNotEmitted ==
    [][/\ (requests' = requests + 1 /\ dict'.continue = None /\ dict'.batchcomplete # TRUE)
            => (pc' = "done" /\ yielded_total' = yielded_total)
       /\ pc = "done" => (pc' = "done" /\ yielded_total' = yielded_total)]_vars

\* the sequence ended on such a response while the accumulator held a page
\* with a resolved parent, after an earlier batch had been yielded
C11_Witness ==
    /\ pc = "done"
    /\ dict.continue = None
    /\ dict.batchcomplete # TRUE
    /\ yielded_total > 0
    /\ \E k \in DOMAIN members : members[k] # {}

\* C20: a parent-category name the Identity Resolver cannot resolve is dropped
\* from the member's parent set and raises nothing: at a yield every member
\* page received since the previous yield is a key of the Snapshot, its parent
\* set holds resolved pages only, and the running total grows by the number of
\* member pages received, those with an empty parent set included.
C20_UnresolvedParentsDropped ==
    [][(pc # "yielded" /\ pc' = "yielded") =>
          /\ seen_pages' \subseteq DOMAIN members'
          /\ \A k \in DOMAIN members' : \A c \in members'[k] :
                \E e \in seen' : e[1] = k /\ Resolved(e[2])' = Some(c)
          /\ num_members' = num_members + Cardinality(seen_pages')]_vars

\* a yielded Snapshot with a member page all of whose parent names were
\* unresolvable: the page is a key with an empty parent set, and is counted
C20_Witness ==
    /\ pc = "yielded"
    /\ \E k \in DOMAIN members :
          /\ members[k] = {}
          /\ \E e \in seen : e[1] = k /\ Resolved(e[2]) = None
    /\ num_members = Cardinality(DOMAIN members)
    /\ \E k \in DOMAIN members : members[k] # {}

-----------------------------------------------------------------------------
\* Properties of the crawl (checked under SpecCrawl).

\* C16: a failure in the walker ends the crawl: the step that raises writes
\* nothing to the store, the store then holds the edges of the Snapshots
\* yielded and upserted before the failure and no call is left open, and
\* after the failure there is no further request and no further write.
C16_WalkerFailureWritesNothing ==
    [][/\ (pc # "raised" /\ pc' = "raised") =>
             (db' = db /\ db'.members = upserted' /\ outcome' = "none")
       /\ pc = "raised" => (pc' = "raised" /\ requests' = requests /\ db' = db)]_vars

\* the walker failed with a batch in flight, after an earlier Snapshot had
\* been upserted: an edge of the batch in flight is not in the store
C16_Witness ==
    /\ pc = "raised"
    /\ db.members # {}
    /\ \E k \in DOMAIN members : \E c \in members[k] : <<c[1], k[1]>> \notin db.members

\* the decoded response has no 'query', or no 'pages' under it
NoPages(response) ==
    IF response.query = None THEN TRUE ELSE response.query[1].pages = None

\* C14, as claimed: a request answered with a response that has no 'query',
\* or no 'pages' under it, ends with an error raised to the caller of the
\* sequence.
C14_NoQueryRaises ==
    [][(requests' = requests + 1 /\ NoPages(dict')) => pc' = "raised"]_vars

\* C14, amended: a response with no 'query', or no 'pages' under it, raises
\* nothing (a step that raises has decoded no such response).  The walker merges no page and looks no name up, and goes on as
\* after any response: it yields the accumulated Snapshot if and only if
\* batchcomplete is true, ends the sequence if there is neither batchcomplete
\* nor a continuation token, and otherwise sends the next request.
C14_NoQueryIsSkipped ==
    [][(requests' = requests + 1 /\ NoPages(dict') /\ (dict' # dict \/ pc' # "raised")) =>
          /\ pc' # "raised"
          /\ members' = members
          /\ cache' = cache
          /\ pc' = "yielded" <=> dict'.batchcomplete = TRUE
          /\ pc' = "done" <=> (dict'.batchcomplete # TRUE /\ dict'.continue = None)
          /\ pc' = "yielded" => num_members' = num_members + Cardinality(DOMAIN members)]_vars

\* a response with no 'query' and batchcomplete = true made the walker yield
\* the pages accumulated from the responses before it
C14_Witness ==
    /\ pc = "yielded"
    /\ NoPages(dict)
    /\ requests >= 2
    /\ \E k \in DOMAIN members : members[k] # {}

-----------------------------------------------------------------------------
\* Termination of the walker (checked under SpecWalkerLive).

====
